---- MODULE Spec2Model ----
(***************************************************************************)
(* A model of NestedSampler (source/NestedSampler.cpp): the constructor,   *)
(* run() step by step, and the getters' view of the results.               *)
(*                                                                         *)
(* Doubles.  A double is a record [c, v]: c is its IEEE class ("nan",      *)
(* "ninf" = -infinity, "pinf" = +infinity, "fin" = finite) and, for a      *)
(* finite one, v is a fixed-point number with Scale units to 1.  A          *)
(* log-domain quantity (logLikelihood, logWidthInPriorMass, logEvidence, *)
(* ...) is held by the fixed-point value of its exponential, so that       *)
(* log-sum-exp is an addition and a log-domain sum is a product.  The      *)
(* sentinel numeric_limits<double>::lowest() is the finite value whose    *)
(* exponential is 0: Fin(0), not to be confused with NInf.                 *)
(* A plain double (informationGain, logEvidenceError, a posterior           *)
(* probability) is held by its own fixed-point value.                      *)
(***************************************************************************)
EXTENDS Integers, Sequences, FiniteSets, TLC

\* ------------------------------------------------------------ bounds
MaxN == 2             \* Nobjects ranges over 1..MaxN
MaxPoint == 3         \* the parameter space is the points 0..MaxPoint
MaxRuns == 2          \* run() is called at most MaxRuns times on the object
MaxAttempts == 2      \* maxNdrawAttempts ranges over 1..MaxAttempts
Scale == 4096         \* fixed-point units to 1.0

\* ------------------------------------------------------------ doubles
NaN == [c |-> "nan", v |-> 0]
NInf == [c |-> "ninf", v |-> 0]
PInf == [c |-> "pinf", v |-> 0]
Fin(x) == [c |-> "fin", v |-> x]
Lowest == Fin(0)
IsNaN(a) == a.c = "nan"
IsFinite(a) == a.c = "fin"

\* a < b as IEEE compares doubles: false as soon as one side is NaN.
Less(a, b) ==
    /\ ~IsNaN(a) /\ ~IsNaN(b)
    /\ \/ a.c = "ninf" /\ b.c # "ninf"
       \/ a.c = "fin" /\ b.c = "pinf"
       \/ a.c = "fin" /\ b.c = "fin" /\ a.v < b.v

\* a > b
Greater(a, b) == Less(b, a)

\* a <= b, again false on NaN.
LessEq(a, b) == ~IsNaN(a) /\ ~IsNaN(b) /\ ~Less(b, a)

\* x + y on two log-domain doubles.
LogAdd(a, b) ==
    IF IsNaN(a) \/ IsNaN(b) THEN NaN
    ELSE IF (a.c = "ninf" /\ b.c = "pinf") \/ (a.c = "pinf" /\ b.c = "ninf") THEN NaN
    ELSE IF a.c = "ninf" \/ b.c = "ninf" THEN NInf
    ELSE IF a.c = "pinf" \/ b.c = "pinf" THEN PInf
    ELSE Fin((a.v * b.v) \div Scale)

\* Functions::logExpSum(x, y) = log(exp(x) + exp(y)).
LogExpSum(a, b) ==
    IF IsNaN(a) \/ IsNaN(b) THEN NaN
    ELSE IF a.c = "pinf" \/ b.c = "pinf" THEN PInf
    ELSE IF a.c = "ninf" THEN b
    ELSE IF b.c = "ninf" THEN a
    ELSE Fin(a.v + b.v)

\* exp(-1/n) in fixed point, by its power series.
RECURSIVE ExpSeries(_, _, _, _)
ExpSeries(n, j, term, acc) ==
    IF term = 0 THEN acc
    ELSE ExpSeries(n, j + 1, term \div (n * (j + 1)),
                   IF j % 2 = 0 THEN acc + term ELSE acc - term)

ExpNegInv(n) == ExpSeries(n, 0, Scale, 0)

\* log(1.0 - exp(x)) for a log-domain x: the log of a negative number is NaN,
\* log(0) is -infinity.
LogOneMinusExp(a) ==
    IF IsNaN(a) \/ a.c = "pinf" THEN NaN
    ELSE IF a.c = "ninf" THEN Fin(Scale)
    ELSE IF a.v > Scale THEN NaN
    ELSE IF a.v = Scale THEN NInf
    ELSE Fin(Scale - a.v)


\* x - log(n), n a positive integer, on a log-domain x.
LogMinusLogInt(a, n) == IF IsFinite(a) THEN Fin(a.v \div n) ELSE a

\* x + k * (log(n) - log(n + 1)) on a log-domain x.
RECURSIVE LogPlusKeeton(_, _, _)
LogPlusKeeton(a, n, k) ==
    IF ~IsFinite(a) \/ k = 0 THEN a
    ELSE LogPlusKeeton(Fin((a.v * n) \div (n + 1)), n, k - 1)

\* exp(x - y) on two log-domain doubles: a linear-domain double.  The sentinel
\* lowest() (v = 0) under the minus makes the exponent overflow to +infinity.
ExpOfDifference(a, b) ==
    IF IsNaN(a) \/ IsNaN(b) \/ (a.c = b.c /\ a.c # "fin") THEN NaN
    ELSE IF a.c = "ninf" \/ b.c = "pinf" THEN Fin(0)
    ELSE IF a.c = "pinf" \/ b.c = "ninf" THEN PInf
    ELSE IF b.v = 0 THEN PInf
    ELSE Fin((a.v * Scale) \div b.v)

\* Op(x), with x evaluated once before Op is applied to its value.
Strict(Op(_), x) == CHOOSE r \in {Op(y) : y \in {x}} : TRUE

\* |x| on a fixed-point value.
Abs(x) == IF x < 0 THEN 0 - x ELSE x

\* 2 * (z + z^3/3 + z^5/5 + ...) in fixed point: 2 * atanh(z), 0 <= z < 1/2.
\* state = <<z^(2j+1), sum of the terms before it>>.
RECURSIVE AtanhSeries(_, _, _)
AtanhSeries(zSquared, j, state) ==
    IF state[1] = 0 THEN 2 * state[2]
    ELSE Strict(LAMBDA next : AtanhSeries(zSquared, j + 1, next),
                <<(state[1] * zSquared) \div Scale,
                  state[2] + (state[1] \div (2 * j + 1))>>)

\* 2 * atanh(z) of a fixed-point z.
TwiceAtanh(z) == AtanhSeries((z * z) \div Scale, 0, <<z, 0>>)

\* log(2) in fixed point: 2 * atanh(1/3).
Ln2 == TwiceAtanh(Scale \div 3)

\* log(v / unit) + k * log(2) in fixed point, v > 0: v / unit is brought into
\* [1, 2) by doublings and log(x) = 2 * atanh((x - 1) / (x + 1)) is used there.
RECURSIVE LnAt(_, _, _)
LnAt(v, unit, k) ==
    IF v < unit THEN LnAt(2 * v, unit, k - 1)
    ELSE IF v >= 2 * unit THEN LnAt(v, 2 * unit, k + 1)
    ELSE k * Ln2 + Strict(TwiceAtanh, ((v - unit) * Scale) \div (v + unit))

\* The value x of a log-domain double held by v = exp(x): log(v), in fixed point.
Ln(v) == Strict(LAMBDA w : LnAt(w, Scale, 0), v)

\* The integer square root, by Newton's iteration from above.
RECURSIVE SqrtIter(_, _)
SqrtIter(n, r) ==
    Strict(LAMBDA next : IF next >= r THEN r ELSE SqrtIter(n, next),
           (r + (n \div r)) \div 2)

\* sqrt(x) of a fixed-point x >= 0.
Sqrt(x) == IF x = 0 THEN 0
           ELSE Strict(LAMBDA n : SqrtIter(n, n), x * Scale)

\* A double that has not been given a value yet.
Uninitialized == [c |-> "uninit", v |-> 0]

\* ------------------------------------------------------------ inputs
Points == 0 .. MaxPoint
NoPoint == 0 - 1

\* Likelihood::logValue under its contract: a pure function of the point with
\* values in the reals and -infinity.  Point 0 lies in the region of zero
\* likelihood; the others come in pairs of equal likelihood 1, 2, ...
ContractLikelihood == [p \in Points |->
    IF p = 0 THEN NInf ELSE Fin(((p + 1) \div 2) * Scale)]

\* A likelihood that breaks the contract at one point by returning NaN.
BrokenLikelihoods ==
    {[ContractLikelihood EXCEPT ![p] = NaN] : p \in Points}

\* A likelihood within the contract that is finite everywhere: 1 on the
\* parameter space but for a peak of 8 at the last point.
PeakedLikelihood == [p \in Points |->
    IF p = MaxPoint THEN Fin(8 * Scale) ELSE Fin(Scale)]

\* The arguments run() is called with, maxNdrawAttempts aside:
\* <<maxRatioOfRemainderToActualEvidence, NinitialIterationsWithoutClustering,
\*   NiterationsWithSameClustering>>, with termination factors 0.5 and 2.
RunArguments == {<<2 * Scale, 0, 1>>, <<Scale \div 2, 1, 2>>}

VARIABLES
    pc,                     \* position in run(): see the actions
    Ncalls,                 \* calls of run() made on the object
    likelihood,             \* the Likelihood object: point -> log-value
    Nobjects,
    minNobjects,
    maxRatioOfRemainderToActualEvidence,
    NinitialIterationsWithoutClustering,
    NiterationsWithSameClustering,
    maxNdrawAttempts,
    nestedSample,           \* live index 0..Nobjects-1 -> point (a column)
    logLikelihood,          \* live index -> double
    logWidthInPriorMass,
    logCumulatedPriorMass,
    logRemainingPriorMass,
    logEvidence,
    informationGain,
    logEvidenceError,
    Niterations,
    posteriorSample,                    \* sequences; entry i+1 is column i
    logLikelihoodOfPosteriorSample,
    logWeightOfPosteriorSample,
    worstLiveLogLikelihood,
    indexOfLivePointWithWorstLikelihood,
    logMeanLikelihoodOfLivePoints,
    logMeanLiveEvidence,
    ratioOfRemainderToActualEvidence,
    Nclusters,
    clusterIndices,
    clusterSizes,
    NclustererCalls,        \* calls of clusterer.cluster made by this call of run()
    indexOfRandomlyChosenLivePoint,
    drawnPoint,
    logLikelihoodOfDrawnPoint,
    newPointIsFound,
    NdrawAttempts,
    nestedSamplingShouldContinue

config == <<likelihood, Nobjects, minNobjects>>
arguments == <<maxRatioOfRemainderToActualEvidence, NinitialIterationsWithoutClustering,
               NiterationsWithSameClustering, maxNdrawAttempts>>
live == <<nestedSample, logLikelihood>>
priorMass == <<logWidthInPriorMass, logCumulatedPriorMass, logRemainingPriorMass>>
evidence == <<logEvidence, informationGain>>
posterior == <<posteriorSample, logLikelihoodOfPosteriorSample, logWeightOfPosteriorSample>>
worst == <<worstLiveLogLikelihood, indexOfLivePointWithWorstLikelihood>>
remainder == <<logMeanLikelihoodOfLivePoints, logMeanLiveEvidence,
               ratioOfRemainderToActualEvidence>>
clusters == <<Nclusters, clusterIndices, clusterSizes, NclustererCalls>>
draw == <<drawnPoint, logLikelihoodOfDrawnPoint, newPointIsFound, NdrawAttempts>>

vars == <<pc, Ncalls, config, arguments, live, priorMass, evidence, logEvidenceError,
          Niterations, posterior, worst, remainder, clusters,
          indexOfRandomlyChosenLivePoint, draw, nestedSamplingShouldContinue>>

LiveIndices == 0 .. (Nobjects - 1)


\* ------------------------------------------------------------ helpers of run()
\* The sequence <<f[0], ..., f[n-1]>> of a function on 0..n-1.
AsSequence(f, n) == [i \in 1 .. n |-> f[i - 1]]

\* Eigen's conservativeResize(n): the first entries are kept, new ones are
\* not initialised.
ConservativeResize(seq, n) ==
    IF n <= Len(seq) THEN SubSeq(seq, 1, n)
    ELSE seq \o [i \in 1 .. (n - Len(seq)) |-> Uninitialized]

\* Eigen's minCoeff(&index) as its visitor computes it: the first coefficient,
\* replaced by each later one that compares less.
RECURSIVE MinVisitor(_, _, _, _)
MinVisitor(x, n, i, best) ==
    IF i >= n THEN best
    ELSE MinVisitor(x, n, i + 1, IF Less(x[i], x[best]) THEN i ELSE best)

\* The indices minCoeff may return.  The result is not specified when a
\* coefficient is NaN: the scalar visitor skips a NaN that is not first, a
\* vectorised or NaN-propagating build returns a NaN.
MinCoeffIndices(x, n) ==
    {MinVisitor(x, n, 1, 0)} \cup {i \in 0 .. (n - 1) : IsNaN(x[i])}

\* logLikelihood(0) folded with logExpSum over the other live points.
RECURSIVE LogExpSumOfLive(_, _, _, _)
LogExpSumOfLive(x, n, m, acc) ==
    IF m >= n THEN acc
    ELSE LogExpSumOfLive(x, n, m + 1, LogExpSum(acc, x[m]))

\* The informationGain recurrence
\*   exp(logWeight - logEvidenceNew) * worstLiveLogLikelihood
\*     + exp(logEvidence - logEvidenceNew) * (informationGain + logEvidence)
\*     - logEvidenceNew
\* on a plain double (informationGain) and log-domain doubles.  With a worst
\* log-likelihood of -infinity the first term is exp(-infinity) * (-infinity)
\* = 0 * (-infinity), which is NaN; a NaN operand makes the result NaN.  With
\* logEvidence = lowest() the factor exp(logEvidence - logEvidenceNew) is 0 and
\* so is the second term.
InformationGainUpdate(gain, logWeight, worstL, logE, logENew) ==
    IF IsNaN(gain) \/ IsNaN(logWeight) \/ IsNaN(logE) \/ IsNaN(logENew)
       \/ ~IsFinite(worstL) \/ ~IsFinite(logENew) \/ ~IsFinite(logE)
    THEN NaN
    ELSE LET first == (((logWeight.v * Scale) \div logENew.v) * Ln(worstL.v)) \div Scale
             second == IF logE.v = 0 THEN 0
                       ELSE (((logE.v * Scale) \div logENew.v) * (gain.v + Ln(logE.v)))
                                \div Scale
         IN  Fin(first + second - Ln(logENew.v))

\* sqrt(fabs(informationGain) / Nobjects).
SkillingError(gain) ==
    IF IsNaN(gain) THEN NaN ELSE Fin(Sqrt(Abs(gain.v) \div Nobjects))

\* Clusterer::cluster: the partitions of the live points into k non-empty
\* clusters, with the per-point index and the per-cluster size.
ClustererOutcomes(n) ==
    UNION {{[n |-> k, indices |-> f,
             sizes |-> [c \in 1 .. k |->
                          Cardinality({i \in 0 .. (n - 1) : f[i] = c - 1})]] :
              f \in {g \in [0 .. (n - 1) -> 0 .. (k - 1)] :
                       \A c \in 0 .. (k - 1) : \E i \in 0 .. (n - 1) : g[i] = c}} :
           k \in 1 .. (IF n < 2 THEN n ELSE 2)}

\* ------------------------------------------------------------ constructor
\* NestedSampler::NestedSampler: the state of the object before run().
Constructed(liks) ==
    /\ pc = "constructed"
    /\ Ncalls = 0
    /\ likelihood \in liks
    /\ Nobjects \in 1 .. MaxN
    /\ minNobjects \in {1, Nobjects}
    /\ maxRatioOfRemainderToActualEvidence = 0
    /\ NinitialIterationsWithoutClustering = 0
    /\ NiterationsWithSameClustering = 1
    /\ maxNdrawAttempts = 1
    /\ nestedSample = << >>
    /\ logLikelihood = << >>
    /\ logWidthInPriorMass = Uninitialized
    /\ logCumulatedPriorMass = Lowest
    /\ logRemainingPriorMass = Fin(Scale)
    /\ logEvidence = Lowest
    /\ informationGain = Fin(0)
    /\ logEvidenceError = Uninitialized
    /\ Niterations = 0
    /\ posteriorSample = << >>
    /\ logLikelihoodOfPosteriorSample = << >>
    /\ logWeightOfPosteriorSample = << >>
    /\ worstLiveLogLikelihood = Uninitialized
    /\ indexOfLivePointWithWorstLikelihood = 0
    /\ logMeanLikelihoodOfLivePoints = Uninitialized
    /\ logMeanLiveEvidence = Uninitialized
    /\ ratioOfRemainderToActualEvidence = Uninitialized
    /\ Nclusters = 0
    /\ clusterIndices = << >>
    /\ clusterSizes = << >>
    /\ NclustererCalls = 0
    /\ indexOfRandomlyChosenLivePoint = 0
    /\ drawnPoint = NoPoint
    /\ logLikelihoodOfDrawnPoint = Uninitialized
    /\ newPointIsFound = FALSE
    /\ NdrawAttempts = 0
    /\ nestedSamplingShouldContinue = TRUE

Init == Constructed({ContractLikelihood})

InitNaN == Constructed(BrokenLikelihoods)

InitPeaked == Constructed({PeakedLikelihood})


\* ------------------------------------------------------------ run()
\* Mutant: the cluster index vector is sized one entry too long.
InitialClusterIndices_OneMore == [i \in 0 .. Nobjects |-> 0]

\* vector<int> clusterIndices(Nobjects): one zero per live point.
InitialClusterIndices == [i \in LiveIndices |-> 0]

\* Mutant: the log-weight is saved where the log-likelihood belongs.
RecordedLogLikelihood_Weight(worstL, logWeight) == logWeight

\* The log-likelihood saved with the discarded point.
RecordedLogLikelihood(worstL, logWeight) == worstL

\* Mutant: the starting point is drawn whatever the number of live points.
StartIsDrawn_Always == TRUE

\* Whether the starting point is drawn at random.
StartIsDrawn == Nobjects > 1

\* Mutant: the drawn point overwrites the column it started from.
ReplacedSample_AtStart ==
    [nestedSample EXCEPT ![indexOfRandomlyChosenLivePoint] = drawnPoint]

\* nestedSample after the worst column is overwritten with the drawn point.
ReplacedSample ==
    [nestedSample EXCEPT ![indexOfLivePointWithWorstLikelihood] = drawnPoint]

\* Mutant: the column is replaced and its log-likelihood entry is not.
ReplacedLogLikelihood_Stale == logLikelihood

\* logLikelihood after the worst entry is overwritten with the drawn value.
ReplacedLogLikelihood ==
    [logLikelihood EXCEPT
        ![indexOfLivePointWithWorstLikelihood] = logLikelihoodOfDrawnPoint]

\* Mutant: the stopping criterion compares the wrong way round.
ShouldContinue_Reversed ==
    Less(ratioOfRemainderToActualEvidence, Fin(maxRatioOfRemainderToActualEvidence))

\* The stopping criterion of Keeton (2011).
ShouldContinue ==
    Greater(ratioOfRemainderToActualEvidence, Fin(maxRatioOfRemainderToActualEvidence))

\* Mutant: the prior mass interval is assigned where it is to be accumulated.
CumulatedWith_Assigned(width) == width

\* logExpSum(logCumulatedPriorMass, logWidthInPriorMass).
CumulatedWith(width) == LogExpSum(logCumulatedPriorMass, width)

\* run(), from its entry to the start of the nested loop: the initial sample
\* is drawn from the priors, its log-likelihoods are computed, the first prior
\* interval is set and added to logCumulatedPriorMass, the cluster containers
\* are created and Niterations is set to 0.  Nothing else is reset.
RunStart(sample, args, nattempts) ==
    /\ pc \in {"constructed", "done"}
    /\ Ncalls < MaxRuns
    /\ Ncalls' = Ncalls + 1
    /\ maxRatioOfRemainderToActualEvidence' = args[1]
    /\ NinitialIterationsWithoutClustering' = args[2]
    /\ NiterationsWithSameClustering' = args[3]
    /\ maxNdrawAttempts' = nattempts
    /\ nestedSample' = sample
    /\ logLikelihood' = [i \in LiveIndices |-> likelihood[sample[i]]]
    /\ logWidthInPriorMass' = LogOneMinusExp(Fin(ExpNegInv(Nobjects)))
    /\ logCumulatedPriorMass' = CumulatedWith(logWidthInPriorMass')
    /\ Nclusters' = 0
    /\ clusterIndices' = InitialClusterIndices
    /\ clusterSizes' = << >>
    /\ NclustererCalls' = 0
    /\ nestedSamplingShouldContinue' = TRUE
    /\ Niterations' = 0
    /\ logMeanLiveEvidence' = Uninitialized
    /\ ratioOfRemainderToActualEvidence' = Uninitialized
    /\ pc' = "loop"
    /\ UNCHANGED <<config, logRemainingPriorMass, evidence, logEvidenceError, posterior,
                   worst, logMeanLikelihoodOfLivePoints,
                   indexOfRandomlyChosenLivePoint, draw>>

\* Mutant: the single cluster's size is not set.
SingleClusterSizes_NotSet == clusterSizes

\* clusterSizes of the single cluster that holds all the live points.
SingleClusterSizes == <<Nobjects>>

\* Mutant: the clustering falls due one iteration early.
ClusteringIsDue_OneEarly == ((Niterations + 1) % NiterationsWithSameClustering) = 0

\* Whether this iteration updates the clustering.
ClusteringIsDue == (Niterations % NiterationsWithSameClustering) = 0

\* The clustering of one iteration: every NiterationsWithSameClustering
\* iterations, one cluster for the first NinitialIterationsWithoutClustering
\* iterations and the clusterer's result afterwards.
Clustering ==
    IF ClusteringIsDue
    THEN IF Niterations < NinitialIterationsWithoutClustering
         THEN /\ Nclusters' = 1
              /\ clusterSizes' = SingleClusterSizes
              /\ clusterIndices' = [i \in DOMAIN clusterIndices |-> 0]
              /\ NclustererCalls' = NclustererCalls
         ELSE \E o \in ClustererOutcomes(Nobjects) :
                /\ Nclusters' = o.n
                /\ clusterIndices' = o.indices
                /\ clusterSizes' = o.sizes
                /\ NclustererCalls' = NclustererCalls + 1
    ELSE UNCHANGED clusters

\* Mutant: the width of the prior mass interval is left out of the weight.
LogWeight_NoWidth(worstL) == worstL

\* logWeight = logWidthInPriorMass + worstLiveLogLikelihood.
LogWeight(worstL) == LogAdd(logWidthInPriorMass, worstL)

\* Mutant: the first live point is saved in place of the worst one.
RecordedPoint_First(iworst) == nestedSample[0]

\* The live point saved in the posterior sample: the column of the worst one.
RecordedPoint(iworst) == nestedSample[iworst]

\* The first half of an iteration: the posterior arrays grow by one, the worst
\* live point is found, logEvidence and informationGain are updated, the worst
\* point is recorded, the remainder ratio is computed and the clusters are
\* updated.
DiscardWorst(iworst) ==
    /\ pc = "loop"
    /\ iworst \in MinCoeffIndices(logLikelihood, Nobjects)
    /\ LET worstL == logLikelihood[iworst]
           logWeight == LogWeight(worstL)
           logEvidenceNew == LogExpSum(logEvidence, logWeight)
           logMean == LogMinusLogInt(
                          LogExpSumOfLive(logLikelihood, Nobjects, 1, logLikelihood[0]),
                          Nobjects)
           logMeanLive == LogPlusKeeton(logMean, Nobjects, Niterations)
       IN  /\ indexOfLivePointWithWorstLikelihood' = iworst
           /\ worstLiveLogLikelihood' = worstL
           /\ informationGain' = InformationGainUpdate(informationGain, logWeight, worstL,
                                                       logEvidence, logEvidenceNew)
           /\ logEvidence' = logEvidenceNew
           /\ posteriorSample' =
                 [ConservativeResize(posteriorSample, Niterations + 1)
                     EXCEPT ![Niterations + 1] = RecordedPoint(iworst)]
           /\ logLikelihoodOfPosteriorSample' =
                 [ConservativeResize(logLikelihoodOfPosteriorSample, Niterations + 1)
                     EXCEPT ![Niterations + 1] = RecordedLogLikelihood(worstL, logWeight)]
           /\ logWeightOfPosteriorSample' =
                 [ConservativeResize(logWeightOfPosteriorSample, Niterations + 1)
                     EXCEPT ![Niterations + 1] = logWeight]
           /\ logMeanLikelihoodOfLivePoints' = logMean
           /\ logMeanLiveEvidence' = logMeanLive
           /\ ratioOfRemainderToActualEvidence' =
                 ExpOfDifference(logMeanLive, logEvidenceNew)
    /\ Clustering
    /\ indexOfRandomlyChosenLivePoint' = 0
    /\ pc' = "choose"
    /\ UNCHANGED <<Ncalls, config, arguments, live, priorMass, logEvidenceError,
                   Niterations, draw, nestedSamplingShouldContinue>>

\* Mutant: the drawn index is taken whatever it is.
StartIsRedrawn_Never(i) == FALSE

\* Whether the drawn index is rejected and drawn again.
StartIsRedrawn(i) == i = indexOfLivePointWithWorstLikelihood

\* One pass of the loop that picks the starting point: a random live index,
\* drawn again while it is the worst one; index 0 without a draw when there
\* is one live point.  On leaving, the starting point is copied to drawnPoint.
ChooseStartingPoint(i) ==
    /\ pc = "choose"
    /\ IF StartIsDrawn
       THEN indexOfRandomlyChosenLivePoint' = i
       ELSE indexOfRandomlyChosenLivePoint' = indexOfRandomlyChosenLivePoint
    /\ IF StartIsDrawn /\ StartIsRedrawn(i)
       THEN /\ pc' = "choose"
            /\ UNCHANGED draw
       ELSE /\ pc' = "draw"
            /\ drawnPoint' = nestedSample[indexOfRandomlyChosenLivePoint']
            /\ logLikelihoodOfDrawnPoint' = Fin(Scale)
            /\ NdrawAttempts' = 0
            /\ UNCHANGED newPointIsFound
    /\ UNCHANGED <<Ncalls, config, arguments, live, priorMass, evidence, logEvidenceError,
                   Niterations, posterior, worst, remainder, clusters,
                   nestedSamplingShouldContinue>>

\* Mutant: drawWithConstraint is handed one attempt too many.
AttemptsAllowed_OneMore == maxNdrawAttempts + 1

\* The number of attempts run() hands to drawWithConstraint.
AttemptsAllowed == maxNdrawAttempts

\* One attempt of drawWithConstraint: a candidate point is drawn and accepted
\* when its log-likelihood is greater than the worst one; the draw fails when
\* maxNdrawAttempts candidates were rejected.
DrawAttempt(candidate) ==
    /\ pc = "draw"
    /\ NdrawAttempts < AttemptsAllowed
    /\ NdrawAttempts' = NdrawAttempts + 1
    /\ IF Greater(likelihood[candidate], worstLiveLogLikelihood)
       THEN /\ drawnPoint' = candidate
            /\ logLikelihoodOfDrawnPoint' = likelihood[candidate]
            /\ newPointIsFound' = TRUE
            /\ pc' = "drawn"
       ELSE /\ UNCHANGED <<drawnPoint, logLikelihoodOfDrawnPoint>>
            /\ newPointIsFound' = FALSE
            /\ pc' = IF NdrawAttempts' < AttemptsAllowed THEN "draw" ELSE "drawn"
    /\ UNCHANGED <<Ncalls, config, arguments, live, priorMass, evidence, logEvidenceError,
                   Niterations, posterior, worst, remainder, clusters,
                   indexOfRandomlyChosenLivePoint, nestedSamplingShouldContinue>>

\* Mutant: a completed iteration is counted twice.
CountedIterations_Twice == Niterations + 2

\* Niterations++ at the end of a completed iteration.
CountedIterations == Niterations + 1

\* Mutant: without the break, the failed draw falls through to the replacement
\* and the shrinking of the prior mass interval before the loop ends.
DrawFailed_NoBreak ==
    /\ pc = "drawn"
    /\ ~newPointIsFound
    /\ nestedSamplingShouldContinue' = FALSE
    /\ nestedSample' = ReplacedSample
    /\ logLikelihood' = ReplacedLogLikelihood
    /\ Niterations' = CountedIterations
    /\ logWidthInPriorMass' = LogAdd(logWidthInPriorMass, Fin(ExpNegInv(Nobjects)))
    /\ pc' = "finalize"
    /\ UNCHANGED <<Ncalls, config, arguments, logCumulatedPriorMass, logRemainingPriorMass,
                   evidence, logEvidenceError, posterior, worst, remainder, clusters,
                   indexOfRandomlyChosenLivePoint, draw>>

\* No better point was found: the loop is left at once.
DrawFailed ==
    /\ pc = "drawn"
    /\ ~newPointIsFound
    /\ nestedSamplingShouldContinue' = FALSE
    /\ pc' = "finalize"
    /\ UNCHANGED <<Ncalls, config, arguments, live, priorMass, evidence, logEvidenceError,
                   Niterations, posterior, worst, remainder, clusters,
                   indexOfRandomlyChosenLivePoint, draw>>

\* The second half of an iteration: the worst point is replaced by the drawn
\* one, the iteration is counted, the stopping criterion is evaluated and the
\* prior mass interval is shrunk and accumulated.  The locals of the loop body
\* end with the iteration; newPointIsFound stays to tell how the loop was left.
ReplaceWorst ==
    /\ pc = "drawn"
    /\ newPointIsFound
    /\ nestedSample' = ReplacedSample
    /\ logLikelihood' = ReplacedLogLikelihood
    /\ Niterations' = CountedIterations
    /\ nestedSamplingShouldContinue' = ShouldContinue
    /\ logWidthInPriorMass' = LogAdd(logWidthInPriorMass, Fin(ExpNegInv(Nobjects)))
    /\ logCumulatedPriorMass' = CumulatedWith(logWidthInPriorMass')
    /\ logRemainingPriorMass' = LogOneMinusExp(logCumulatedPriorMass')
    /\ pc' = IF nestedSamplingShouldContinue' THEN "loop" ELSE "finalize"
    /\ indexOfLivePointWithWorstLikelihood' = 0
    /\ indexOfRandomlyChosenLivePoint' = 0
    /\ drawnPoint' = NoPoint
    /\ logLikelihoodOfDrawnPoint' = Uninitialized
    /\ NdrawAttempts' = 0
    /\ UNCHANGED <<Ncalls, config, arguments, evidence, logEvidenceError, posterior,
                   worstLiveLogLikelihood, remainder, clusters, newPointIsFound>>

\* Mutant: the live points are appended with the bare prior mass interval.
LiveLogWeights_WidthOnly == [i \in LiveIndices |-> logWidthInPriorMass]

\* logWidthInPriorMass + logLikelihood: the log-weights of the live points.
LiveLogWeights ==
    [i \in LiveIndices |-> LogAdd(logWidthInPriorMass, logLikelihood[i])]

\* After the loop: the live points are appended to the posterior arrays,
\* Skilling's error is computed and the mean live evidence is added to
\* logEvidence.
Finalize ==
    /\ pc = "finalize"
    /\ posteriorSample' = posteriorSample \o AsSequence(nestedSample, Nobjects)
    /\ logWeightOfPosteriorSample' = logWeightOfPosteriorSample \o
          AsSequence(LiveLogWeights, Nobjects)
    /\ logLikelihoodOfPosteriorSample' = logLikelihoodOfPosteriorSample \o
          AsSequence(logLikelihood, Nobjects)
    /\ logEvidenceError' = SkillingError(informationGain)
    /\ logEvidence' = LogExpSum(logMeanLiveEvidence, logEvidence)
    /\ pc' = "done"
    /\ UNCHANGED <<Ncalls, config, arguments, live, priorMass, informationGain, Niterations,
                   worst, remainder, clusters, indexOfRandomlyChosenLivePoint, draw,
                   nestedSamplingShouldContinue>>

\* The first call of run() on the object.
FirstRun ==
    /\ pc = "constructed"
    /\ \E sample \in [LiveIndices -> Points], args \in RunArguments,
          nattempts \in 1 .. MaxAttempts :
          RunStart(sample, args, nattempts)

\* A further call of run() on the same object, with the same arguments.
RunAgain ==
    /\ pc = "done"
    /\ \E sample \in [LiveIndices -> Points] :
          RunStart(sample,
                   <<maxRatioOfRemainderToActualEvidence,
                     NinitialIterationsWithoutClustering, NiterationsWithSameClustering>>,
                   maxNdrawAttempts)

Next ==
    \/ FirstRun
    \/ \E iworst \in LiveIndices : DiscardWorst(iworst)
    \/ \E i \in LiveIndices : ChooseStartingPoint(i)
    \/ \E candidate \in Points : DrawAttempt(candidate)
    \/ DrawFailed
    \/ ReplaceWorst
    \/ Finalize

NextAgain == Next \/ RunAgain

Spec == Init /\ [][Next]_vars

SpecNaN == InitNaN /\ [][Next]_vars

SpecAgain == Init /\ [][NextAgain]_vars

SpecPeaked == InitPeaked /\ [][Next]_vars

SpecPeakedAgain == InitPeaked /\ [][NextAgain]_vars


\* ------------------------------------------------------------ Results
\* The sum of an array of plain doubles (Eigen's sum()).
RECURSIVE SumOf(_)
SumOf(seq) ==
    IF seq = << >> THEN Fin(0)
    ELSE LET head == Head(seq)
             rest == SumOf(Tail(seq))
         IN  IF IsNaN(head) \/ IsNaN(rest) THEN NaN
             ELSE IF head.c = "pinf" \/ rest.c = "pinf" THEN PInf
             ELSE Fin(head.v + rest.v)

\* Bayes' theorem in logarithmic form, per record and for a given value of the
\* log-evidence: exp(logWeight + logLikelihood - logEvidence).
BayesTheorem(logE) ==
    [i \in 1 .. Len(logWeightOfPosteriorSample) |->
        ExpOfDifference(LogAdd(logWeightOfPosteriorSample[i],
                               logLikelihoodOfPosteriorSample[i]),
                        logE)]

\* Results::posteriorProbability before its normalisation, with the sampler's
\* getLogEvidence().
posteriorDistribution == BayesTheorem(logEvidence)

\* x / y on two plain doubles that are not negative: 0/0 and inf/inf are NaN,
\* a positive value over 0 is +infinity.
Divide(a, b) ==
    IF IsNaN(a) \/ IsNaN(b) THEN NaN
    ELSE IF a.c = "pinf" /\ b.c = "pinf" THEN NaN
    ELSE IF b.c = "pinf" THEN Fin(0)
    ELSE IF a.c = "pinf" THEN PInf
    ELSE IF b.v = 0 THEN (IF a.v = 0 THEN NaN ELSE PInf)
    ELSE Fin((a.v * Scale) \div b.v)

\* Mutant: the array is returned as Bayes' theorem gives it, not normalised.
NormalizingSum_Unity(distribution) == Fin(Scale)

\* posteriorDistribution.sum(), by which the array is divided.
NormalizingSum(distribution) == SumOf(distribution)

\* posteriorDistribution / posteriorDistribution.sum().
Normalized(distribution) ==
    LET sum == NormalizingSum(distribution)
    IN  [i \in DOMAIN distribution |-> Divide(distribution[i], sum)]

\* Results::posteriorProbability().
posteriorProbability == Normalized(posteriorDistribution)

\* x + y on two plain doubles that are not negative.
Plus(a, b) ==
    IF IsNaN(a) \/ IsNaN(b) THEN NaN
    ELSE IF a.c = "pinf" \/ b.c = "pinf" THEN PInf
    ELSE Fin(a.v + b.v)

\* How a sort may order two records of equal parameter value.
TieOrders == {"first", "last"}

\* Functions::sortElementsDouble: the record indices in increasing order of
\* parameter value, records of equal value in the order of tie.
RECURSIVE SortedIndices(_, _, _)
SortedIndices(values, remaining, tie) ==
    IF remaining = {} THEN << >>
    ELSE LET smallest == {i \in remaining : \A j \in remaining : values[i] <= values[j]}
             pick == IF tie = "first"
                     THEN CHOOSE i \in smallest : \A j \in smallest : i <= j
                     ELSE CHOOSE i \in smallest : \A j \in smallest : i >= j
         IN  <<pick>> \o SortedIndices(values, remaining \ {pick}, tie)

\* An array rearranged by a sequence of indices.
Rearranged(array, order) == [k \in 1 .. Len(order) |-> array[order[k]]]

\* Mutant: the scan goes on until the whole probability is gathered.
MedianLevel_Whole == Scale

\* The probability 0.50 at which the scan for the median stops.
MedianLevel == Scale \div 2

\* The scan for the median in parameterEstimation, from k records read with
\* totalProbability gathered: while totalProbability < 0.50 the next value is
\* taken as the median and its probability added.  Reading parameterValues(k)
\* with k past the last record is an access outside the array.
RECURSIVE MedianScan(_, _, _, _, _)
MedianScan(parameterValues, marginalDistribution, k, totalProbability, parameterMedian) ==
    IF ~Less(totalProbability, Fin(MedianLevel))
    THEN [parameterMedian |-> parameterMedian, k |-> k, outside |-> FALSE]
    ELSE IF k >= Len(parameterValues)
    THEN [parameterMedian |-> parameterMedian, k |-> k, outside |-> TRUE]
    ELSE MedianScan(parameterValues, marginalDistribution, k + 1,
                    Plus(totalProbability, marginalDistribution[k + 1]),
                    parameterValues[k + 1])

\* The median part of Results::parameterEstimation for the one parameter of
\* the model: the records sorted by parameter value, then the scan from
\* k = 0, totalProbability = 0.0 and parameterMedian = parameterValues(0).
parameterEstimation(tie) ==
    LET order == SortedIndices(posteriorSample, DOMAIN posteriorSample, tie)
        parameterValues == Rearranged(posteriorSample, order)
        marginalDistribution == Rearranged(posteriorProbability, order)
    IN  IF parameterValues = << >>
        THEN [parameterMedian |-> NoPoint, k |-> 0, outside |-> TRUE]
        ELSE MedianScan(parameterValues, marginalDistribution, 0, Fin(0),
                        parameterValues[1])


\* ------------------------------------------------------------ properties
\* The number of records the loop of the current call has written so far: the
\* posterior arrays without the final live batch, and at the top of the loop
\* without what an earlier call left in them.
LoopRecords ==
    CASE pc = "constructed" -> 0
      [] pc = "loop" -> Niterations
      [] pc = "done" -> Len(logLikelihoodOfPosteriorSample) - Nobjects
      [] OTHER -> Len(logLikelihoodOfPosteriorSample)

\* C1: the log-likelihoods of the records the loop appended to the posterior
\* are non-decreasing in insertion order.
C1_PosteriorNonDecreasing ==
    \A s, t \in 1 .. LoopRecords :
        s < t => LessEq(logLikelihoodOfPosteriorSample[s],
                        logLikelihoodOfPosteriorSample[t])

\* C1 witness: a run has returned whose loop recorded a worst point and later
\* one of strictly greater log-likelihood.
C1_Witness ==
    /\ pc = "done"
    /\ LoopRecords >= 2
    /\ Less(logLikelihoodOfPosteriorSample[1],
            logLikelihoodOfPosteriorSample[LoopRecords])

\* C2: from the start of the loop on, the stored log-likelihood of every live
\* point is the likelihood's log-value of its column.
C2_LogLikelihoodMatchesColumn ==
    pc # "constructed" =>
        \A i \in LiveIndices : logLikelihood[i] = likelihood[nestedSample[i]]

\* C2 witness: a worst point has been replaced, every live point now lies
\* above it, and the next iteration is about to start.
C2_Witness ==
    /\ pc = "loop"
    /\ Niterations >= 1
    /\ \A i \in LiveIndices : Less(worstLiveLogLikelihood, logLikelihood[i])

\* The live matrix, the log-likelihood vector and the cluster index vector
\* have Nobjects entries, and on return the posterior arrays hold the loop's
\* records followed by Nobjects live points.
SizesAgree ==
    /\ minNobjects <= Nobjects
    /\ pc # "constructed" =>
          /\ DOMAIN nestedSample = LiveIndices
          /\ DOMAIN logLikelihood = LiveIndices
          /\ DOMAIN clusterIndices = LiveIndices
    /\ pc = "done" =>
          /\ Len(posteriorSample) = Len(logLikelihoodOfPosteriorSample)
          /\ Len(posteriorSample) = Len(logWeightOfPosteriorSample)
          /\ Len(posteriorSample) =
                Niterations + (IF newPointIsFound THEN 0 ELSE 1) + Nobjects

C4_PriorMassIdentity ==
    Niterations >= 1 =>
        /\ IsFinite(logCumulatedPriorMass)
        /\ IsFinite(logRemainingPriorMass)
        /\ logCumulatedPriorMass.v < Scale
        /\ logCumulatedPriorMass.v + logRemainingPriorMass.v = Scale

\* A step taken when the draw has failed ends the loop and changes neither the
\* live set, Niterations, the prior mass interval nor the records appended.
FailedDrawStep ==
    (pc = "drawn" /\ ~newPointIsFound) =>
        /\ pc' = "finalize"
        /\ UNCHANGED <<live, Niterations, logWidthInPriorMass, posterior, evidence>>

\* Before the replacement no step of an iteration touches the live set,
\* Niterations or the prior mass interval.
IterationFrameStep ==
    pc \in {"loop", "choose", "draw"} =>
        UNCHANGED <<live, Niterations, logWidthInPriorMass>>

\* The step after the loop is the whole finalization: the records appended so
\* far are kept, the live points follow them, logEvidenceError is set and the
\* live evidence is folded into logEvidence.
FinalizationStep ==
    pc = "finalize" =>
        LET old == Len(posteriorSample) IN
        /\ pc' = "done"
        /\ Len(posteriorSample') = old + Nobjects
        /\ Len(logLikelihoodOfPosteriorSample') = old + Nobjects
        /\ Len(logWeightOfPosteriorSample') = old + Nobjects
        /\ SubSeq(posteriorSample', 1, old) = posteriorSample
        /\ SubSeq(logLikelihoodOfPosteriorSample', 1, old) = logLikelihoodOfPosteriorSample
        /\ SubSeq(logWeightOfPosteriorSample', 1, old) = logWeightOfPosteriorSample
        /\ \A i \in LiveIndices :
              /\ posteriorSample'[old + i + 1] = nestedSample[i]
              /\ logLikelihoodOfPosteriorSample'[old + i + 1] = logLikelihood[i]
        /\ logEvidenceError' = SkillingError(informationGain)
        /\ logEvidence' = LogExpSum(logMeanLiveEvidence, logEvidence)
        /\ UNCHANGED <<live, Niterations, logWidthInPriorMass>>

\* C5: a failed draw ends the loop within its iteration, which leaves the live
\* set, Niterations and logWidthInPriorMass as they were and keeps the records
\* appended so far; the full finalization follows.
C5_DrawFailureEndsLoop ==
    [][FailedDrawStep /\ IterationFrameStep /\ FinalizationStep]_vars

\* C5 witness: a run has returned whose loop ended by a failed draw after at
\* least one completed iteration.
C5_Witness ==
    /\ pc = "done"
    /\ ~newPointIsFound
    /\ Niterations >= 1

\* The remainder ratio as the current iteration computes it from the live set.
RatioOfThisIteration ==
    ExpOfDifference(
        LogPlusKeeton(
            LogMinusLogInt(LogExpSumOfLive(logLikelihood, Nobjects, 1, logLikelihood[0]),
                           Nobjects),
            Nobjects, Niterations),
        logEvidence)

\* C6: after an iteration the loop goes on exactly when the draw succeeded and
\* the ratio of that iteration is greater than the termination factor, and it
\* ends otherwise; the first iteration is always entered.
C6_ContinuesExactlyWhen ==
    [][/\ pc = "constructed" => pc' = "loop"
       /\ pc' = "finalize" => pc = "drawn"
       /\ pc = "drawn" =>
            /\ ratioOfRemainderToActualEvidence = RatioOfThisIteration
            /\ pc' \in {"loop", "finalize"}
            /\ pc' = "loop" <=>
                  (newPointIsFound /\
                   Greater(RatioOfThisIteration, Fin(maxRatioOfRemainderToActualEvidence)))
            /\ (newPointIsFound /\
                LessEq(RatioOfThisIteration, Fin(maxRatioOfRemainderToActualEvidence)))
                  => pc' = "finalize"]_vars

\* C6 witness: the loop went on after one iteration and was ended by the ratio
\* test after a later one.
C6_Witness ==
    /\ pc = "finalize"
    /\ newPointIsFound
    /\ Niterations >= 2

\* run() is sequential code that keeps executing: weak fairness of its steps.
FairSpec == Spec /\ WF_vars(Next)

\* C7: once in the nested loop, run eventually returns, and the choice of a
\* starting point eventually ends.
C7_RunReturns ==
    /\ (pc = "loop") ~> (pc = "done")
    /\ (pc = "choose") ~> (pc = "draw")

\* C7 witness: a run with a single live point has returned after at least one
\* replacement.
C7_Witness ==
    /\ pc = "done"
    /\ Nobjects = 1
    /\ Niterations >= 1

\* C9: with a likelihood that is -infinity on a subregion, logEvidence,
\* informationGain and the error derived from it are never NaN.
C9_ZeroLikelihoodKeepsValuesDefined ==
    /\ ~IsNaN(logEvidence)
    /\ ~IsNaN(informationGain)
    /\ ~IsNaN(logEvidenceError)

\* C10: once a log-likelihood of NaN has been stored for a live point, run does
\* not go on to record, draw, finalize or return.
C10_NaNAborts ==
    (pc # "constructed" /\ \E i \in LiveIndices : IsNaN(logLikelihood[i]))
        => pc = "loop"

\* An allowance of 1/16 for the rounding of the fixed-point arithmetic.
RoundingAllowance == Scale \div 16

\* C11: after finalization the posterior records' exp(logWeight +
\* logLikelihood - logEvidence) sum to 1 to within logEvidenceError.
C11_PosteriorSumsToOne ==
    pc = "done" =>
        LET sum == SumOf(posteriorDistribution)
        IN  /\ IsFinite(sum)
            /\ IsFinite(logEvidenceError)
            /\ Abs(sum.v - Scale) <= logEvidenceError.v + RoundingAllowance

\* C12: every call of run enters its first iteration with the initial
\* accumulators: logEvidence at its sentinel, informationGain 0, Niterations 0.
C12_RunStartsFromInitialAccumulators ==
    (pc = "loop" /\ Niterations = 0) =>
        /\ logEvidence = Lowest
        /\ informationGain = Fin(0)

\* The finalization appends the live points in live-index order, each with
\* its log-likelihood and with logWidthInPriorMass plus its log-likelihood as
\* log-weight, after the records already there.
LiveBatchAppended ==
    pc = "finalize" =>
        LET old == Len(posteriorSample) IN
        /\ SubSeq(posteriorSample', 1, old) = posteriorSample
        /\ SubSeq(logLikelihoodOfPosteriorSample', 1, old) = logLikelihoodOfPosteriorSample
        /\ SubSeq(logWeightOfPosteriorSample', 1, old) = logWeightOfPosteriorSample
        /\ Len(posteriorSample') = old + Nobjects
        /\ \A i \in LiveIndices :
              /\ posteriorSample'[old + i + 1] = nestedSample[i]
              /\ logLikelihoodOfPosteriorSample'[old + i + 1] = logLikelihood[i]
              /\ logWeightOfPosteriorSample'[old + i + 1] =
                    LogAdd(logWidthInPriorMass, logLikelihood[i])

\* After run the three posterior arrays have the same number of entries, and
\* so has the posterior probability vector: the assertion of
\* Results::parameterEstimation holds.
PosteriorSizesAgree ==
    pc = "done" =>
        /\ Len(logLikelihoodOfPosteriorSample) = Len(posteriorSample)
        /\ Len(logWeightOfPosteriorSample) = Len(posteriorSample)
        /\ Len(posteriorDistribution) = Len(posteriorSample)

\* C13: finalization appends the N live points in live-index order with their
\* log-likelihoods and log-weights logWidthInPriorMass + logLikelihood, and the
\* posterior arrays and the posterior probability vector end with one length.
C13_FinalLiveBatch ==
    /\ PosteriorSizesAgree
    /\ [][LiveBatchAppended /\ PosteriorSizesAgree']_vars

\* C13 witness: a run has returned with two live points of different
\* log-likelihood at the end of the posterior arrays, after at least one
\* replacement.
C13_Witness ==
    /\ pc = "done"
    /\ Nobjects = 2
    /\ Niterations >= 1
    /\ LET M == Len(logLikelihoodOfPosteriorSample)
       IN  /\ logLikelihoodOfPosteriorSample[M - 1] = logLikelihood[0]
           /\ logLikelihoodOfPosteriorSample[M] = logLikelihood[1]
           /\ Less(logLikelihood[1], logLikelihood[0])

\* What the constrained draw has reported when it returns.
DrawReport ==
    /\ NdrawAttempts <= maxNdrawAttempts
    /\ pc = "drawn" =>
          /\ NdrawAttempts >= 1
          /\ newPointIsFound =>
                /\ logLikelihoodOfDrawnPoint = likelihood[drawnPoint]
                /\ Greater(logLikelihoodOfDrawnPoint, worstLiveLogLikelihood)
                /\ worstLiveLogLikelihood =
                      logLikelihood[indexOfLivePointWithWorstLikelihood]
          /\ ~newPointIsFound => NdrawAttempts = maxNdrawAttempts

\* An attempt is counted, and a rejected one is followed by another unless it
\* was the last one allowed; with one attempt allowed the draw returns after
\* it, and a failed draw ends the run without completing the iteration.
DrawStep ==
    /\ pc = "draw" =>
          /\ NdrawAttempts' = NdrawAttempts + 1
          /\ pc' = "draw" => (~newPointIsFound' /\ NdrawAttempts' < maxNdrawAttempts)
          /\ maxNdrawAttempts = 1 => pc' = "drawn"
    /\ (pc = "drawn" /\ ~newPointIsFound) =>
          /\ pc' = "finalize"
          /\ Niterations' = Niterations

\* C14: the constrained draw makes at most maxNdrawAttempts attempts in an
\* iteration, succeeds only with a point strictly above the worst live
\* log-likelihood and fails only after maxNdrawAttempts rejections; with
\* maxNdrawAttempts = 1 one rejected candidate ends the run.
C14_DrawAttemptsBounded ==
    /\ DrawReport
    /\ [][DrawStep /\ DrawReport']_vars

\* C14 witness: with maxNdrawAttempts = 1 a run has returned after a failed
\* draw while the remainder ratio was still above the termination factor.
C14_Witness ==
    /\ pc = "done"
    /\ maxNdrawAttempts = 1
    /\ NdrawAttempts = 1
    /\ ~newPointIsFound
    /\ Greater(ratioOfRemainderToActualEvidence, Fin(maxRatioOfRemainderToActualEvidence))

\* The clustering of iteration t = Niterations: changed only when t is a
\* multiple of NiterationsWithSameClustering, to one cluster without a call of
\* the clusterer while t < NinitialIterationsWithoutClustering and by one call
\* of the clusterer otherwise; no other step of an iteration touches it.
ClusteringStep ==
    /\ pc = "loop" =>
          IF (Niterations % NiterationsWithSameClustering) = 0
          THEN IF Niterations < NinitialIterationsWithoutClustering
               THEN /\ Nclusters' = 1
                    /\ DOMAIN clusterIndices' = LiveIndices
                    /\ \A i \in LiveIndices : clusterIndices'[i] = 0
                    /\ clusterSizes' = <<Nobjects>>
                    /\ NclustererCalls' = NclustererCalls
               ELSE NclustererCalls' = NclustererCalls + 1
          ELSE UNCHANGED <<Nclusters, clusterIndices, clusterSizes, NclustererCalls>>
    /\ pc \in {"choose", "draw", "drawn", "finalize"} =>
          UNCHANGED <<Nclusters, clusterIndices, clusterSizes, NclustererCalls>>

\* C15: the cluster assignment of iteration t changes only when t mod
\* NiterationsWithSameClustering = 0: forced to a single cluster without the
\* clusterer when t < NinitialIterationsWithoutClustering, by exactly one call
\* of the clusterer otherwise; in every other iteration it is left unchanged.
C15_ClusteringCadence == [][ClusteringStep]_vars

\* C15 witness: with one initial iteration without clustering and a clustering
\* every second iteration, iteration 0 forced one cluster, iteration 1 left it
\* and iteration 2 called the clusterer, which found two clusters.
C15_Witness ==
    /\ pc = "choose"
    /\ NinitialIterationsWithoutClustering = 1
    /\ NiterationsWithSameClustering = 2
    /\ Niterations = 2
    /\ NclustererCalls = 1
    /\ Nclusters = 2

\* The sum of a sequence of cluster sizes.
RECURSIVE SizeSum(_)
SizeSum(sizes) == IF sizes = << >> THEN 0 ELSE Head(sizes) + SizeSum(Tail(sizes))

\* A well-formed cluster assignment of the live points.
WellFormedClusters ==
    /\ Nclusters >= 1
    /\ DOMAIN clusterIndices = LiveIndices
    /\ \A i \in LiveIndices : clusterIndices[i] \in 0 .. (Nclusters - 1)
    /\ Len(clusterSizes) = Nclusters
    /\ SizeSum(clusterSizes) = Nobjects
    /\ \A c \in 1 .. Nclusters :
          clusterSizes[c] = Cardinality({i \in LiveIndices : clusterIndices[i] = c - 1})

\* C16: whenever the constrained draw is invoked the cluster assignment handed
\* to it is well formed: at least one cluster, one index in [0, Nclusters) per
\* live point, Nclusters sizes that sum to N, each the number of live points
\* with that index.
C16_ClustersWellFormed ==
    pc \in {"draw", "drawn"} => WellFormedClusters

\* C16 witness: the draw is invoked in an iteration that does not cluster,
\* after a worst point was replaced in place, with two clusters found before.
C16_Witness ==
    /\ pc = "draw"
    /\ Nobjects = 2
    /\ Niterations >= 1
    /\ (Niterations % NiterationsWithSameClustering) # 0
    /\ NclustererCalls >= 1
    /\ Nclusters = 2

\* The starting point the constrained draw is invoked with.
StartingPoint ==
    pc = "draw" =>
        /\ indexOfRandomlyChosenLivePoint \in LiveIndices
        /\ drawnPoint = nestedSample[indexOfRandomlyChosenLivePoint]
        /\ Nobjects > 1 =>
              indexOfRandomlyChosenLivePoint # indexOfLivePointWithWorstLikelihood
        /\ Nobjects = 1 =>
              /\ indexOfRandomlyChosenLivePoint = 0
              /\ indexOfLivePointWithWorstLikelihood = 0

\* With one live point the index is not drawn: it is the 0 it was declared
\* with, and the draw is invoked at once.
SinglePointStart ==
    (pc = "choose" /\ Nobjects = 1) =>
        /\ indexOfRandomlyChosenLivePoint = 0
        /\ indexOfRandomlyChosenLivePoint' = 0
        /\ pc' = "draw"

\* C17: the start point handed to the constrained draw is a live point; with
\* more than one live point it is never the worst one, with one live point it
\* is index 0, the worst point itself, taken without a random draw.
C17_StartingPointNotWorst ==
    /\ StartingPoint
    /\ [][SinglePointStart /\ StartingPoint']_vars

\* C17 witness: with two live points the worst one is at index 1 and the draw
\* is invoked from index 0 in a later iteration.
C17_Witness ==
    /\ pc = "draw"
    /\ Nobjects = 2
    /\ Niterations >= 1
    /\ indexOfLivePointWithWorstLikelihood = 1
    /\ indexOfRandomlyChosenLivePoint = 0

\* The replacement overwrites the worst column and its log-likelihood entry
\* with the drawn point, a different point, and nothing else of the live set;
\* the record of this iteration holds the values they had before, and keeps
\* them.
ReplacementStep ==
    (pc = "drawn" /\ newPointIsFound) =>
        LET iworst == indexOfLivePointWithWorstLikelihood
            t == Niterations + 1
        IN  /\ nestedSample'[iworst] = drawnPoint
            /\ nestedSample'[iworst] # nestedSample[iworst]
            /\ logLikelihood'[iworst] = logLikelihoodOfDrawnPoint
            /\ \A i \in LiveIndices \ {iworst} :
                  /\ nestedSample'[i] = nestedSample[i]
                  /\ logLikelihood'[i] = logLikelihood[i]
            /\ posteriorSample[t] = nestedSample[iworst]
            /\ logLikelihoodOfPosteriorSample[t] = logLikelihood[iworst]
            /\ posteriorSample'[t] = nestedSample[iworst]
            /\ logLikelihoodOfPosteriorSample'[t] = logLikelihood[iworst]
            /\ Niterations' = t

\* No other step of an iteration changes the live set.
LiveSetFrame ==
    pc \in {"loop", "choose", "draw", "finalize"} => UNCHANGED live

\* C18: a completed iteration overwrites the worst column and its
\* log-likelihood entry and no other live point, and its posterior record
\* holds the worst point's values from before the replacement.
C18_OneColumnReplaced == [][ReplacementStep /\ LiveSetFrame]_vars

\* C18 witness: with two live points an iteration has completed and the point
\* it recorded is no longer among the live points.
C18_Witness ==
    /\ pc = "loop"
    /\ Nobjects = 2
    /\ Niterations >= 1
    /\ \A i \in LiveIndices : nestedSample[i] # posteriorSample[Niterations]

\* exp(x) of a log-domain double, in fixed point: 0 for -infinity and for the
\* sentinel.
ExpValue(a) == IF a.c = "ninf" THEN 0 ELSE a.v

\* The sum of exp(logWeight) over the first n records.
RECURSIVE WeightSum(_)
WeightSum(n) ==
    IF n = 0 THEN 0 ELSE WeightSum(n - 1) + ExpValue(logWeightOfPosteriorSample[n])

\* The shell width in force in iteration k of a run: log(1 - exp(-1/N)),
\* lowered by 1/N after each completed iteration.
RECURSIVE ShellWidth(_)
ShellWidth(k) ==
    IF k = 0 THEN LogOneMinusExp(Fin(ExpNegInv(Nobjects)))
    ELSE Strict(LAMBDA width : LogAdd(width, Fin(ExpNegInv(Nobjects))),
                ShellWidth(k - 1))

\* In the loop, exp(logEvidence) is the sum of exp(logWeight) over the records
\* appended so far, and each record's log-weight is the shell width of its
\* iteration plus its log-likelihood.
EvidenceIsSumOfWeights ==
    pc \in {"loop", "choose", "draw", "drawn", "finalize"} =>
        /\ IsFinite(logEvidence)
        /\ logEvidence.v = WeightSum(LoopRecords)
        /\ \A i \in 1 .. LoopRecords :
              logWeightOfPosteriorSample[i] =
                 LogAdd(ShellWidth(i - 1), logLikelihoodOfPosteriorSample[i])

\* C19: in the loop of a first call of run, logEvidence is the log-sum-exp of
\* the log-weights appended so far, each log-weight is the shell width in force
\* at the discard plus the record's log-likelihood, and logEvidence never
\* decreases.
C19_EvidenceAccumulates ==
    /\ []EvidenceIsSumOfWeights
    /\ [][LessEq(logEvidence, logEvidence')]_vars

\* C19 witness: two records of non-zero weight have been appended and the
\* evidence of the second iteration is above that of the first.
C19_Witness ==
    /\ pc = "choose"
    /\ Niterations = 1
    /\ ExpValue(logWeightOfPosteriorSample[1]) > 0
    /\ ExpValue(logWeightOfPosteriorSample[2]) > 0
    /\ logEvidence.v > ExpValue(logWeightOfPosteriorSample[1])

\* exp(ShellWidth(0)) + ... + exp(ShellWidth(k)), in fixed point.
RECURSIVE WidthSum(_)
WidthSum(k) == IF k < 0 THEN 0 ELSE WidthSum(k - 1) + ShellWidth(k).v

\* C20 as stated: at the first discard of a run logCumulatedPriorMass is still
\* its sentinel and logRemainingPriorMass is 0, and after k completed
\* iterations the cumulated prior mass is the sum of the k shrunk shell widths,
\* without the initial width.
C20_NoPriorMassBeforeFirstShrink ==
    (Ncalls = 1 /\ pc \in {"loop", "choose", "draw", "drawn"}) =>
        /\ Niterations = 0 =>
              /\ logCumulatedPriorMass = Lowest
              /\ logRemainingPriorMass = Fin(Scale)
        /\ logCumulatedPriorMass = Fin(WidthSum(Niterations) - ShellWidth(0).v)

\* How run() moves the prior mass accumulators: on entry the initial width is
\* added to logCumulatedPriorMass as the call finds it and logRemainingPriorMass
\* is left alone; a completed iteration shrinks the width, adds it and
\* recomputes logRemainingPriorMass; no other step touches them.
PriorMassStep ==
    /\ pc \in {"constructed", "done"} =>
          /\ logWidthInPriorMass' = ShellWidth(0)
          /\ logCumulatedPriorMass' = LogExpSum(logCumulatedPriorMass, ShellWidth(0))
          /\ logRemainingPriorMass' = logRemainingPriorMass
    /\ (pc = "drawn" /\ newPointIsFound) =>
          /\ logWidthInPriorMass' = ShellWidth(Niterations + 1)
          /\ logCumulatedPriorMass' =
                LogExpSum(logCumulatedPriorMass, ShellWidth(Niterations + 1))
          /\ logRemainingPriorMass' = LogOneMinusExp(logCumulatedPriorMass')
    /\ (pc \in {"loop", "choose", "draw", "finalize"} \/ (pc = "drawn" /\ ~newPointIsFound))
          => UNCHANGED priorMass

\* In a first call the cumulated prior mass is the initial width plus the
\* shrunk widths of the completed iterations, and at the first discard
\* logRemainingPriorMass is still 0.
FirstCallPriorMass ==
    (Ncalls = 1 /\ pc # "constructed") =>
        /\ logCumulatedPriorMass = Fin(WidthSum(Niterations))
        /\ Niterations = 0 =>
              /\ logCumulatedPriorMass = ShellWidth(0)
              /\ logRemainingPriorMass = Fin(Scale)

\* C20, amended: at the first discard of a run the initial width
\* log(1 - exp(-1/N)) has already been added to logCumulatedPriorMass as the
\* call found it (the sentinel in a first call) and logRemainingPriorMass is as
\* the call found it (0 in a first call); each completed iteration adds its
\* shrunk width, so after k completed iterations of a first call the cumulated
\* prior mass is the sum of the initial width and the k shrunk widths.
C20_InitialWidthAccumulated ==
    /\ []FirstCallPriorMass
    /\ [][PriorMassStep]_vars

\* C20 witness: two iterations of a first call with two live points have
\* completed.
C20_Witness ==
    /\ pc = "loop"
    /\ Ncalls = 1
    /\ Nobjects = 2
    /\ Niterations = 2

\* log(mean(likelihood)) of the live points as they are now.
MeanLikelihoodOfLive ==
    LogMinusLogInt(LogExpSumOfLive(logLikelihood, Nobjects, 1, logLikelihood[0]),
                   Nobjects)

\* The live points appended by the finalization are the live set as it is.
FinalBatchIsLiveSet ==
    LET old == Len(posteriorSample) - Nobjects
    IN  /\ old >= 0
        /\ \A i \in LiveIndices :
              /\ posteriorSample[old + i + 1] = nestedSample[i]
              /\ logLikelihoodOfPosteriorSample[old + i + 1] = logLikelihood[i]

\* C21: when run has returned, the live evidence that was folded into
\* logEvidence is the mean live evidence of the live points of the final batch
\* (with Keeton's factor of some iteration of the run), and the worst point of
\* the last pass, whose weight is in logEvidence as a discarded record, is no
\* longer among the live points: it was replaced.
C21_LiveEvidenceOfRemainingPoints ==
    (pc = "done" /\ Ncalls = 1) =>
        /\ FinalBatchIsLiveSet
        /\ \E k \in 0 .. Niterations :
              logMeanLiveEvidence = LogPlusKeeton(MeanLikelihoodOfLive, Nobjects, k)
        /\ newPointIsFound

\* logEvidence shifted by log(2) upwards and downwards.
ShiftedEvidences ==
    IF IsFinite(logEvidence)
    THEN {Fin(2 * logEvidence.v), Fin(logEvidence.v \div 2)}
    ELSE {}

\* Two arrays of plain doubles agree entry by entry, rounding aside.
AgreeWithinRounding(p, q) ==
    /\ DOMAIN p = DOMAIN q
    /\ \A i \in DOMAIN p :
          /\ IsFinite(p[i]) /\ IsFinite(q[i])
          /\ Abs(p[i].v - q[i].v) <= RoundingAllowance

\* The values are probabilities: one per posterior record, none negative, of
\* sum 1 (rounding aside).
IsProbabilityVector(p) ==
    /\ Len(p) = Len(posteriorSample)
    /\ \A i \in DOMAIN p : IsFinite(p[i]) /\ p[i].v >= 0
    /\ IsFinite(SumOf(p))
    /\ Abs(SumOf(p).v - Scale) <= RoundingAllowance

\* The sum by which posteriorProbability divides is a finite positive number.
HasPositiveSum(distribution) ==
    IsFinite(SumOf(distribution)) /\ SumOf(distribution).v > 0

CumulativeProbability(probability, value) ==
    SumOf([i \in DOMAIN posteriorSample |->
              IF posteriorSample[i] <= value THEN probability[i] ELSE Fin(0)])

\* The parameter values at which the cumulative probability has reached 0.50.
ValuesPastHalf(probability) ==
    {value \in {posteriorSample[i] : i \in DOMAIN posteriorSample} :
        ~Less(CumulativeProbability(probability, value), Fin(Scale \div 2))}

\* C23: once run has returned with a posterior probability that is a
\* probability vector, parameterEstimation stops its scan at an index inside
\* the array, without reading past the last record, and the median it returns
\* is the smallest parameter value at which the cumulative probability, that
\* value's own included, is at least 0.50; this for any order the sort gives to
\* records of equal value.
C23_MedianIsFirstPastHalf ==
    pc = "done" =>
        LET probability == posteriorProbability
            pastHalf == ValuesPastHalf(probability)
        IN  IsProbabilityVector(probability) =>
               \A tie \in TieOrders :
                  LET estimate == parameterEstimation(tie)
                  IN  /\ ~estimate.outside
                      /\ estimate.k \in 1 .. Len(posteriorSample)
                      /\ estimate.parameterMedian \in pastHalf
                      /\ \A value \in pastHalf : estimate.parameterMedian <= value

\* C23 witness: a run has returned with a probability vector whose scan reads
\* more than one record and stops before the last one, at a median above the
\* smallest parameter value, two records having the same parameter value.
C23_Witness ==
    /\ pc = "done"
    /\ IsProbabilityVector(posteriorProbability)
    /\ \E i, j \in DOMAIN posteriorSample : i # j /\ posteriorSample[i] = posteriorSample[j]
    /\ \A tie \in TieOrders :
          LET estimate == parameterEstimation(tie)
          IN  /\ estimate.k > 1
              /\ estimate.k < Len(posteriorSample)
              /\ \E i \in DOMAIN posteriorSample :
                    posteriorSample[i] < estimate.parameterMedian

\* The number of passes of the loop that were started in the call of run that
\* has returned: the completed iterations, and one more when the loop was left
\* by a failed draw.
StartedPasses == IF newPointIsFound THEN Niterations ELSE Niterations + 1

\* Niterations is set to 0 on entry to run and is raised by one by a completed
\* replacement, a step that changes the live set; no other step changes it.
IterationCountStep ==
    Niterations' # Niterations =>
        \/ pc \in {"constructed", "done"} /\ Niterations' = 0
        \/ /\ pc = "drawn" /\ newPointIsFound
           /\ Niterations' = Niterations + 1
           /\ nestedSample'[indexOfLivePointWithWorstLikelihood] = drawnPoint

\* Once run has returned, each posterior array holds one record per started
\* pass and one per live point.
RecordsPerPassAndLivePoint ==
    pc = "done" =>
        /\ Len(posteriorSample) = StartedPasses + Nobjects
        /\ Len(logLikelihoodOfPosteriorSample) = StartedPasses + Nobjects
        /\ Len(logWeightOfPosteriorSample) = StartedPasses + Nobjects

\* C24: after run returns the number of posterior records is P + N, with N the
\* number of live points and P the number of loop passes started: Niterations
\* on normal termination, Niterations + 1 when the loop ended by draw failure;
\* Niterations counts completed replacements only.
C24_RecordCount ==
    /\ []RecordsPerPassAndLivePoint
    /\ [][IterationCountStep]_vars

\* C24 witness: a run with two live points has returned after two completed
\* iterations and a third pass whose draw failed, with 3 + 2 records.
C24_Witness ==
    /\ pc = "done"
    /\ Nobjects = 2
    /\ Niterations = 2
    /\ ~newPointIsFound
    /\ Len(posteriorSample) = 5

\* Record i of the posterior arrays: the point, its log-likelihood and its
\* log-weight.
PosteriorRecord(i) ==
    <<posteriorSample[i], logLikelihoodOfPosteriorSample[i], logWeightOfPosteriorSample[i]>>

\* A completed iteration removes from the live set the point its pass has
\* recorded: the last record is the worst live column, and that column is
\* overwritten by the drawn point, of greater likelihood, while the records
\* are left as they are.
RecordedPointIsReplaced ==
    (pc = "drawn" /\ newPointIsFound) =>
        LET iworst == indexOfLivePointWithWorstLikelihood
            last == Len(posteriorSample)
        IN  /\ last = Niterations + 1
            /\ posteriorSample[last] = nestedSample[iworst]
            /\ logLikelihoodOfPosteriorSample[last] = logLikelihood[iworst]
            /\ nestedSample'[iworst] = drawnPoint
            /\ logLikelihood'[iworst] = logLikelihoodOfDrawnPoint
            /\ Greater(logLikelihood'[iworst], logLikelihoodOfPosteriorSample[last])
            /\ UNCHANGED posterior

\* After normal termination there is one record per completed iteration and
\* one per live point, and no record of the final live batch repeats a
\* discarded record of non-zero weight: its log-likelihood or its log-weight
\* differs.
NormalEndRecordsDistinct ==
    (pc = "done" /\ newPointIsFound) =>
        /\ Len(posteriorSample) = Niterations + Nobjects
        /\ \A i \in 1 .. Niterations : \A j \in (Niterations + 1) .. Len(posteriorSample) :
              ExpValue(logWeightOfPosteriorSample[i]) > 0 =>
                 \/ logLikelihoodOfPosteriorSample[i] # logLikelihoodOfPosteriorSample[j]
                 \/ logWeightOfPosteriorSample[i] # logWeightOfPosteriorSample[j]

\* After a draw failure the worst live point of the failing pass is the last
\* discarded record and is once more in the final live batch, at the place of
\* its live column, with the same log-likelihood and the same log-weight.
FailedEndRecordsWorstTwice ==
    (pc = "done" /\ ~newPointIsFound) =>
        LET last == Len(posteriorSample) - Nobjects
        IN  /\ last = Niterations + 1
            /\ PosteriorRecord(last) =
                  PosteriorRecord(last + indexOfLivePointWithWorstLikelihood + 1)
            /\ posteriorSample[last] = nestedSample[indexOfLivePointWithWorstLikelihood]

\* C25: on normal termination every record stands for a distinct event, one
\* discarded worst point per completed iteration (each replaced in the live
\* set by the iteration that recorded it) and one record per final live point;
\* on termination by draw failure the worst live point of the failing pass is
\* recorded twice, as the last discarded record and in the final live batch,
\* with the same log-likelihood and log-weight.
C25_RecordsAndEvents ==
    /\ []NormalEndRecordsDistinct
    /\ []FailedEndRecordsWorstTwice
    /\ [][RecordedPointIsReplaced]_vars

\* C25 witness: a run with two live points has returned after a completed
\* iteration and a draw failure, its worst live point, of non-zero likelihood
\* and in the second column, being recorded twice.
C25_Witness ==
    /\ pc = "done"
    /\ ~newPointIsFound
    /\ Nobjects = 2
    /\ Niterations >= 1
    /\ indexOfLivePointWithWorstLikelihood = 1
    /\ nestedSample[0] # nestedSample[1]
    /\ IsFinite(logLikelihoodOfPosteriorSample[Niterations + 1])
    /\ PosteriorRecord(Niterations + 1) = PosteriorRecord(Niterations + 3)

====
